---- MODULE Spec2Model ----
(***************************************************************************)
(* Model of queries.js: the run() script that connects to MongoDB, issues  *)
(* a fixed sequence of find / updateOne / deleteOne / aggregate /          *)
(* createIndex calls against the collection plp_bookstore.books and closes *)
(* the client in a finally block.                                          *)
(*                                                                         *)
(* The collection is a sequence of documents in natural order.  A document *)
(* is a function from the names of the fields it has to their values; a    *)
(* field a document lacks is not in its DOMAIN.  The query documents of    *)
(* the script ($gt, $set, $group, $avg, $sum, $subtract, $mod, $sort,      *)
(* $limit, skip, limit, projection) are given the meaning the MongoDB      *)
(* server and Node.js driver give them.                                    *)
(***************************************************************************)
EXTENDS Integers, Sequences, FiniteSets, TLC

VARIABLES
    books,        \* the collection db.collection("books"), in natural order
    indexes,      \* the collection's indexes, as listIndexes() reports them
    client,       \* the MongoClient: "new", "open" or "closed"
    pc,           \* position of run(): index into Program of the next await
    outstanding,  \* set of driver requests issued and not yet settled
    calls,        \* driver requests issued by this run, in issue order
    table,        \* the value last handed to console.table
    logged,       \* the values handed to console.error, in order
    thrown,       \* errors raised to run() by awaited requests, in order
    settled,      \* the promise returned by run()
    runs,         \* how many times the script has been started
    req,          \* facade specification: the operation last applied
    res           \* facade specification: what that operation returned

vars == <<books, indexes, client, pc, outstanding, calls, table, logged,
          thrown, settled, runs, req, res>>

----------------------------------------------------------------------------
(* Bounds of the model *)

MaxDocs == 11
MaxRuns == 2
MaxFacadeDocs == 2
MaxSkip == 2
MaxLimit == 2

(* Program constants *)

PageSize == 5
NewPrice == 15
AfterYear == 1950
StockYear == 2010
DecadeSpan == 10
TopN == 1

----------------------------------------------------------------------------
(* Values *)

Null == [null |-> TRUE]
Val(x) == [v |-> x]
IsNull(k) == "null" \in DOMAIN k

Has(d, f) == f \in DOMAIN d

\* the value of field f of document d as an expression "$f": null when missing
Field(d, f) == IF Has(d, f) THEN Val(d[f]) ELSE Null

Min(a, b) == IF a < b THEN a ELSE b
Max(a, b) == IF a > b THEN a ELSE b

Reverse(s) == [i \in 1..Len(s) |-> s[Len(s) + 1 - i]]
Take(s, n) == SubSeq(s, 1, Min(n, Len(s)))
Drop(s, n) == SubSeq(s, Min(n, Len(s)) + 1, Len(s))

----------------------------------------------------------------------------
(* Documents the collection may hold at start (insertion is not part of    *)
(* queries.js).  Several share a title, an author or a price, some lack a  *)
(* field.                                                                  *)

Pool ==
    << [title |-> "1984", author |-> "George Orwell", genre |-> "Fiction",
        published_year |-> 1949, price |-> 10, in_stock |-> TRUE],
       [title |-> "Moby Dick", author |-> "Herman Melville", genre |-> "Adventure",
        published_year |-> 1851, price |-> 12, in_stock |-> FALSE],
       [title |-> "The Alchemist", author |-> "Paulo Coelho", genre |-> "Fiction",
        published_year |-> 2014, price |-> 12, in_stock |-> TRUE],
       [title |-> "1984", author |-> "George Orwell",
        published_year |-> 2011, price |-> 15, in_stock |-> FALSE],
       [title |-> "Animal Farm", author |-> "George Orwell", genre |-> "Satire",
        published_year |-> 1945, in_stock |-> TRUE],
       [title |-> "Moby Dick", author |-> "Herman Melville", genre |-> "Adventure",
        price |-> 20, in_stock |-> TRUE] >>

Strides == {0, 1, 2, 3, 5}

WithId(d, i) == ("_id" :> i) @@ d

\* n documents inserted in order, the i-th given _id i by the engine
Fixture(n, off, stride) ==
    [i \in 1..n |-> WithId(Pool[((off + (i - 1) * stride) % Len(Pool)) + 1], i)]

Collections ==
    {Fixture(n, off, stride) : n \in 0..MaxDocs, off \in 0..(Len(Pool) - 1),
                               stride \in Strides}

----------------------------------------------------------------------------
(* Filters: a filter is the sequence of its clauses, in key order.  A      *)
(* clause {f: v} is [field, op "eq", value]; {f: {$gt: v}} has op "gt".    *)

Eq(f, v) == [field |-> f, op |-> "eq", value |-> v]
Gt(f, v) == [field |-> f, op |-> "gt", value |-> v]

\* a clause never matches a document that lacks its field
Sat(d, c) ==
    /\ Has(d, c.field)
    /\ IF c.op = "gt" THEN d[c.field] > c.value ELSE d[c.field] = c.value

\* a filter read as a disjunction of its clauses
MatchesAny(d, F) == \E k \in 1..Len(F) : Sat(d, F[k])

RECURSIVE Matches(_, _)
Matches(d, F) ==
    IF Len(F) = 0 THEN TRUE ELSE Sat(d, Head(F)) /\ Matches(d, Tail(F))

\* books.find(F).toArray(): the matching documents, in natural order
find(coll, F) == SelectSeq(coll, LAMBDA d : Matches(d, F))

\* index of the first document of coll matching F, 0 when none does
FirstMatch(coll, F) ==
    IF \E i \in 1..Len(coll) : Matches(coll[i], F)
    THEN CHOOSE i \in 1..Len(coll) :
             /\ Matches(coll[i], F)
             /\ \A j \in 1..(i - 1) : ~Matches(coll[j], F)
    ELSE 0

----------------------------------------------------------------------------
(* Cursor options *)

\* {projection: {f: 1, ..., _id: 0}}: keep the listed fields a document has
Project(d, fields) == [f \in (DOMAIN d) \cap fields |-> d[f]]

project(docs, fields) == [i \in 1..Len(docs) |-> Project(docs[i], fields)]

\* cursor.skip(n)
skip(docs, n) == Drop(docs, n)

\* cursor.limit(n): at most n documents; limit(0) sets no limit
limit(docs, n) == IF n = 0 THEN docs ELSE Take(docs, n)

\* a number as a sort key; $avg yields a quotient, kept exact as num/den
Num(x) == [num |-> x, den |-> 1]

\* the sort key of document d under {f: dir}: null when d lacks f
SortKey(d, f) == IF Has(d, f) THEN Num(d[f]) ELSE Null

\* BSON order of two sort keys: null sorts below every number
KeyLess(a, b) ==
    IF IsNull(a) THEN ~IsNull(b)
    ELSE (~IsNull(b) /\ a.num * b.den < b.num * a.den)

\* a sort that ignores the direction
BeforeAscending(a, b, dir) == KeyLess(a, b)

\* does key a sort strictly before key b under direction dir (1 or -1)
Before(a, b, dir) == IF dir = 1 THEN KeyLess(a, b) ELSE KeyLess(b, a)

\* stable insertion of index i into the sorted index sequence s
RECURSIVE Insert(_, _, _, _)
Insert(i, s, keys, dir) ==
    IF Len(s) = 0 THEN <<i>>
    ELSE IF Before(keys[i], keys[s[Len(s)]], dir)
         THEN Append(Insert(i, SubSeq(s, 1, Len(s) - 1), keys, dir), s[Len(s)])
         ELSE Append(s, i)

\* the indices 1..n stably sorted by keys
RECURSIVE SortIdx(_, _, _)
SortIdx(n, keys, dir) ==
    IF n = 0 THEN <<>> ELSE Insert(n, SortIdx(n - 1, keys, dir), keys, dir)

\* The order of documents with equal sort keys is engine-defined: the model
\* lets the engine break ties in natural order or in its reverse.
TieOrders == {"natural", "reverse"}

Arrange(s, tie) == IF tie = "reverse" THEN Reverse(s) ELSE s

\* cursor.sort({f: dir}) and {$sort: {f: dir}}, keys[i] the sort key of docs[i]
sort(docs, keys, dir, tie) ==
    LET d == Arrange(docs, tie)
        k == Arrange(keys, tie)
        perm == SortIdx(Len(d), k, dir)
    IN  [i \in 1..Len(d) |-> d[perm[i]]]

FieldKeys(docs, f) == [i \in 1..Len(docs) |-> SortKey(docs[i], f)]

----------------------------------------------------------------------------
(* Writes *)

\* an update that replaces the document by the changes, keeping only _id
SetReplaces(d, changes) == changes @@ [f \in {"_id"} |-> d[f]]

\* {$set: changes}: listed fields overwritten or added, the others kept
Set(d, changes) == changes @@ d

\* books.updateOne(F, {$set: changes})
updateOne(coll, F, changes) ==
    LET i == FirstMatch(coll, F) IN
    IF i = 0
    THEN [coll |-> coll, matchedCount |-> 0, modifiedCount |-> 0]
    ELSE [coll |-> [coll EXCEPT ![i] = Set(coll[i], changes)],
          matchedCount |-> 1,
          modifiedCount |-> IF Set(coll[i], changes) = coll[i] THEN 0 ELSE 1]

\* a delete that removes every matching document
deleteEvery(coll, F) ==
    [coll |-> SelectSeq(coll, LAMBDA d : ~Matches(d, F)),
     deletedCount |-> Len(find(coll, F))]

\* books.deleteOne(F)
deleteOne(coll, F) ==
    LET i == FirstMatch(coll, F) IN
    IF i = 0
    THEN [coll |-> coll, deletedCount |-> 0]
    ELSE [coll |-> SubSeq(coll, 1, i - 1) \o SubSeq(coll, i + 1, Len(coll)),
          deletedCount |-> 1]

\* a createIndex that adds an index whether or not one exists
createIndexAlways(idx, key) == Append(idx, key)

\* books.createIndex(key): a no-op when an index on the same key exists
createIndex(idx, key) ==
    IF \E i \in 1..Len(idx) : idx[i] = key THEN idx ELSE Append(idx, key)

----------------------------------------------------------------------------
(* Aggregation stages *)

\* the distinct keys of a key sequence, in order of first appearance
RECURSIVE Distinct(_)
Distinct(keys) ==
    IF Len(keys) = 0 THEN <<>>
    ELSE LET r == Distinct(SubSeq(keys, 1, Len(keys) - 1))
             k == keys[Len(keys)]
         IN  IF \E j \in 1..Len(r) : r[j] = k THEN r ELSE Append(r, k)

\* the documents whose key is k, in input order
Members(docs, keys, k) ==
    LET idx == SelectSeq([i \in 1..Len(docs) |-> i], LAMBDA i : keys[i] = k)
    IN  [j \in 1..Len(idx) |-> docs[idx[j]]]

\* {$group: {_id: <key>}}: one partition per distinct key; keys[i] is the
\* key expression evaluated on docs[i]
group(docs, keys) ==
    LET ks == Distinct(keys)
    IN  [j \in 1..Len(ks) |-> [key |-> ks[j], members |-> Members(docs, keys, ks[j])]]

RECURSIVE SumField(_, _)
SumField(docs, f) ==
    IF Len(docs) = 0 THEN 0
    ELSE (IF Has(Head(docs), f) THEN Head(docs)[f] ELSE 0) + SumField(Tail(docs), f)

\* {$avg: "$f"}: mean over the documents that have f, null when none has
avg(docs, f) ==
    LET with == SelectSeq(docs, LAMBDA d : Has(d, f))
    IN  IF Len(with) = 0 THEN Null
        ELSE [num |-> SumField(with, f), den |-> Len(with)]

\* {$sum: 1}
count(docs) == Len(docs)

\* {$mod: [a, b]}: the remainder has the sign of the dividend
mod(a, b) == IF a >= 0 THEN a % b ELSE 0 - ((0 - a) % b)

\* {$subtract: ["$published_year", {$mod: ["$published_year", 10]}]}
decade(d) ==
    IF Has(d, "published_year")
    THEN Val(d.published_year - mod(d.published_year, DecadeSpan))
    ELSE Null

\* lines 66-69: average price by genre, highest first
avgByGenre(coll, tie) ==
    LET g == group(coll, [i \in 1..Len(coll) |-> Field(coll[i], "genre")])
        out == [j \in 1..Len(g) |->
                   [_id |-> g[j].key, avgPrice |-> avg(g[j].members, "price")]]
    IN  sort(out, [j \in 1..Len(out) |-> out[j].avgPrice], -1, tie)

\* the $group and $sort stages of lines 74-78
authorCounts(coll, tie) ==
    LET g == group(coll, [i \in 1..Len(coll) |-> Field(coll[i], "author")])
        out == [j \in 1..Len(g) |->
                   [_id |-> g[j].key, count |-> count(g[j].members)]]
    IN  sort(out, [j \in 1..Len(out) |-> Num(out[j].count)], -1, tie)

\* lines 74-78: the author with most books
topAuthor(coll, tie) == Take(authorCounts(coll, tie), TopN)

\* lines 83-93: books per decade, earliest first
byDecade(coll, tie) ==
    LET g == group(coll, [i \in 1..Len(coll) |-> decade(coll[i])])
        out == [j \in 1..Len(g) |->
                   [_id |-> [decade |-> g[j].key], count |-> count(g[j].members)]]
        key(o) == IF IsNull(o._id.decade) THEN Null ELSE Num(o._id.decade.v)
    IN  sort(out, [j \in 1..Len(out) |-> key(out[j])], 1, tie)

----------------------------------------------------------------------------
(* The script: run(), lines 9-107 *)

\* the awaited driver requests of run(), in program order; the last one is
\* the client.close() of the finally block
Program ==
    << "connect", "findFiction", "findAfter1950", "findOrwell",
       "updateOne", "deleteOne",
       "findInStock", "findProjection", "findSortAsc", "findSortDesc",
       "findPage1", "findPage2",
       "avgByGenre", "topAuthor", "byDecade",
       "createIndexTitle", "createIndexAuthorYear",
       "close" >>

CloseAt == Len(Program)
Done == Len(Program) + 1

\* the failures section 7 of the specification names
Errors == {"ConnectivityError", "MalformedRequestError"}

Pending == [state |-> "pending", reason |-> "none"]
Fulfilled == [state |-> "fulfilled", reason |-> "none"]
Rejected(e) == [state |-> "rejected", reason |-> e]

\* the query documents of the script
FictionFilter == << Eq("genre", "Fiction") >>
After1950Filter == << Gt("published_year", AfterYear) >>
OrwellFilter == << Eq("author", "George Orwell") >>
Title1984Filter == << Eq("title", "1984") >>
PriceChange == [price |-> NewPrice]
MobyDickFilter == << Eq("title", "Moby Dick") >>
InStockFilter == << Eq("in_stock", TRUE), Gt("published_year", StockYear) >>
ProjectedFields == {"title", "author", "price"}
IdIndex == << <<"_id", 1>> >>
TitleIndex == << <<"title", 1>> >>
AuthorYearIndex == << <<"author", 1>>, <<"published_year", 1>> >>

Init ==
    /\ books \in Collections
    /\ indexes = << IdIndex >>
    /\ client = "new"
    /\ pc = 1
    /\ outstanding = {}
    /\ calls = <<>>
    /\ table = <<>>
    /\ logged = <<>>
    /\ thrown = <<>>
    /\ settled = Pending
    /\ runs = 1
    /\ req = [op |-> "none"]
    /\ res = [op |-> "none"]

\* a request issued without awaiting the one before it
NotAwaited == TRUE

\* `await`: run() issues its next request only when none is outstanding
Awaited == outstanding = {}

\* the await that follows the one at position i
Following(i) == i + 1

\* the call expression at pc is evaluated: the request goes to the driver
Issue ==
    /\ pc \in 1..CloseAt
    /\ Awaited
    /\ outstanding' = outstanding \cup {Program[pc]}
    /\ calls' = Append(calls, Program[pc])
    /\ UNCHANGED <<books, indexes, client, pc, table, logged, thrown,
                   settled, runs, req, res>>

\* the request of step `name` settles successfully and run() resumes
Resolve(name) ==
    /\ pc \in 1..CloseAt
    /\ Program[pc] = name
    /\ name \in outstanding
    /\ outstanding' = outstanding \ {name}
    /\ pc' = Following(pc)
    /\ UNCHANGED <<calls, logged, thrown, runs, req, res>>

\* a read: its result goes to console.table
Read(name, result) ==
    /\ Resolve(name)
    /\ table' = result
    /\ UNCHANGED <<books, indexes, client, settled>>

\* line 11
Connect ==
    /\ Resolve("connect")
    /\ client' = "open"
    /\ UNCHANGED <<books, indexes, table, settled>>

\* line 20
FindFiction == Read("findFiction", find(books, FictionFilter))

\* line 24
FindAfter1950 == Read("findAfter1950", find(books, After1950Filter))

\* line 28
FindOrwell == Read("findOrwell", find(books, OrwellFilter))

\* line 32
UpdateOne ==
    /\ Resolve("updateOne")
    /\ books' = updateOne(books, Title1984Filter, PriceChange).coll
    /\ UNCHANGED <<indexes, client, table, settled>>

\* line 36
DeleteOne ==
    /\ Resolve("deleteOne")
    /\ books' = deleteOne(books, MobyDickFilter).coll
    /\ UNCHANGED <<indexes, client, table, settled>>

\* line 42
FindInStock == Read("findInStock", find(books, InStockFilter))

\* line 46
FindProjection ==
    Read("findProjection", project(find(books, <<>>), ProjectedFields))

\* line 50
FindSortAsc ==
    \E tie \in TieOrders :
        Read("findSortAsc",
             sort(find(books, <<>>), FieldKeys(find(books, <<>>), "price"), 1, tie))

\* line 53
FindSortDesc ==
    \E tie \in TieOrders :
        Read("findSortDesc",
             sort(find(books, <<>>), FieldKeys(find(books, <<>>), "price"), -1, tie))

\* line 57
FindPage1 ==
    Read("findPage1", limit(skip(find(books, <<>>), 0), PageSize))

\* line 60
FindPage2 ==
    Read("findPage2", limit(skip(find(books, <<>>), PageSize), PageSize))

\* lines 66-70
AvgByGenre == \E tie \in TieOrders : Read("avgByGenre", avgByGenre(books, tie))

\* lines 74-79
TopAuthor == \E tie \in TieOrders : Read("topAuthor", topAuthor(books, tie))

\* lines 83-94
ByDecade == \E tie \in TieOrders : Read("byDecade", byDecade(books, tie))

\* line 98
CreateIndexTitle ==
    /\ Resolve("createIndexTitle")
    /\ indexes' = createIndex(indexes, TitleIndex)
    /\ UNCHANGED <<books, client, table, settled>>

\* line 99
CreateIndexAuthorYear ==
    /\ Resolve("createIndexAuthorYear")
    /\ indexes' = createIndex(indexes, AuthorYearIndex)
    /\ UNCHANGED <<books, client, table, settled>>

\* What the engine holds once request `name` has failed with e.  A failed
\* request changed nothing, except that a write whose acknowledgement was
\* lost to a connectivity failure may have been applied.
AfterFailure(name, e) ==
    {[books |-> books, indexes |-> indexes]} \cup
    (IF e # "ConnectivityError" THEN {}
     ELSE IF name = "updateOne"
          THEN {[books |-> updateOne(books, Title1984Filter, PriceChange).coll,
                 indexes |-> indexes]}
     ELSE IF name = "deleteOne"
          THEN {[books |-> deleteOne(books, MobyDickFilter).coll,
                 indexes |-> indexes]}
     ELSE IF name = "createIndexTitle"
          THEN {[books |-> books, indexes |-> createIndex(indexes, TitleIndex)]}
     ELSE IF name = "createIndexAuthorYear"
          THEN {[books |-> books, indexes |-> createIndex(indexes, AuthorYearIndex)]}
     ELSE {})

\* lines 101-102: catch (err) { console.error("Error:", err) }
Caught(e) == Append(logged, e)

\* a handler that leaves run() without a finally block
AfterCatchSkipsFinally == Done

\* a handler that resumes the try block after the failed request
AfterCatchResumes == Min(pc + 1, CloseAt)

\* lines 103-104: after the catch block control enters the finally block
AfterCatch == CloseAt

\* an awaited request of the try block rejects: the await throws, the catch
\* block logs the error and run() goes on to the finally block
Throw ==
    \E e \in Errors :
        /\ pc \in 1..(CloseAt - 1)
        /\ Program[pc] \in outstanding
        /\ \E after \in AfterFailure(Program[pc], e) :
               /\ books' = after.books
               /\ indexes' = after.indexes
        /\ outstanding' = outstanding \ {Program[pc]}
        /\ thrown' = Append(thrown, [op |-> Program[pc], err |-> e])
        /\ logged' = Caught(e)
        /\ pc' = AfterCatch
        /\ UNCHANGED <<client, calls, table, settled, runs, req, res>>

\* a run() without the catch block: the error of the try block propagates
CompletionRethrows ==
    IF thrown # <<>> THEN Rejected(thrown[1].err) ELSE Fulfilled

\* what run()'s promise becomes when the finally block completes normally:
\* the catch block has consumed any error of the try block
Completion == Fulfilled

\* lines 104-106: client.close() resolves and run() returns
Close ==
    /\ Resolve("close")
    /\ client' = "closed"
    /\ settled' = Completion
    /\ UNCHANGED <<books, indexes, table>>

\* line 104 throws out of the finally block: run() rejects, and the
\* .catch(console.error) of line 110 logs the reason
CloseFails ==
    \E e \in Errors :
        /\ pc = CloseAt
        /\ "close" \in outstanding
        /\ outstanding' = outstanding \ {"close"}
        /\ thrown' = Append(thrown, [op |-> "close", err |-> e])
        /\ settled' = Rejected(e)
        /\ logged' = Append(logged, e)
        /\ pc' = Done
        /\ UNCHANGED <<books, indexes, client, calls, table, runs, req, res>>

\* line 110 in a new process: the script is started again on the same database
Rerun ==
    /\ pc = Done
    /\ runs < MaxRuns
    /\ runs' = runs + 1
    /\ client' = "new"
    /\ pc' = 1
    /\ outstanding' = {}
    /\ calls' = <<>>
    /\ table' = <<>>
    /\ logged' = <<>>
    /\ thrown' = <<>>
    /\ settled' = Pending
    /\ UNCHANGED <<books, indexes, req, res>>

Next ==
    \/ Issue
    \/ Connect
    \/ FindFiction
    \/ FindAfter1950
    \/ FindOrwell
    \/ UpdateOne
    \/ DeleteOne
    \/ FindInStock
    \/ FindProjection
    \/ FindSortAsc
    \/ FindSortDesc
    \/ FindPage1
    \/ FindPage2
    \/ AvgByGenre
    \/ TopAuthor
    \/ ByDecade
    \/ CreateIndexTitle
    \/ CreateIndexAuthorYear
    \/ Throw
    \/ Close
    \/ CloseFails
    \/ Rerun

Spec == Init /\ [][Next]_vars

----------------------------------------------------------------------------
(* Properties of run() *)

IndexOf(name) == CHOOSE i \in 1..Len(Program) : Program[i] = name

Occurrences(s, x) == Cardinality({i \in 1..Len(s) : s[i] = x})

\* the request `name` is the last one issued and has returned successfully
JustReturned(name) ==
    /\ outstanding = {}
    /\ thrown = <<>>
    /\ Len(calls) > 0
    /\ calls[Len(calls)] = name

\* an awaited request of the try block has failed
TryFailed == thrown # <<>> /\ thrown[1].op # "close"

\* C1: in every execution of run(), whether every request succeeds or one of
\* them (connect included) fails, client.close() is called exactly once, as
\* the last driver request of the run; no request is issued after it, and
\* before run() has ended its next request can always be issued or settle.
C1_CloseOnceAtEnd ==
    /\ Occurrences(calls, "close") <= 1
    /\ \A i \in 1..Len(calls) : calls[i] = "close" => i = Len(calls)
    /\ pc = Done => (Occurrences(calls, "close") = 1 /\ outstanding = {})
    /\ pc # Done => (pc \in 1..CloseAt /\ outstanding \in {{}, {Program[pc]}})

\* connect itself failed, and close was still called, once and last
C1_Witness ==
    /\ pc = Done
    /\ thrown = << [op |-> "connect", err |-> "ConnectivityError"] >>
    /\ calls = << "connect", "close" >>
    /\ client = "closed"

\* C2 as stated: a failing request of the try block makes the promise of
\* run() reject with that same error, and nothing is logged on the way.
C2_Original ==
    (pc = Done /\ TryFailed) =>
        (settled = Rejected(thrown[1].err) /\ logged = <<>>)

\* C2 amended: a failure of a request of the try block is caught by run()
\* itself and logged once with console.error; no request is issued twice;
\* the promise of run() is then fulfilled, unless client.close() fails too,
\* in which case it rejects with the error of close (which line 110 logs).
C2_CaughtAndLogged ==
    /\ \A i, j \in 1..Len(calls) : calls[i] = calls[j] => i = j
    /\ TryFailed => (Len(logged) >= 1 /\ logged[1] = thrown[1].err)
    /\ (pc = Done /\ TryFailed) =>
           IF Len(thrown) = 1
           THEN settled = Fulfilled /\ logged = << thrown[1].err >>
           ELSE /\ Len(thrown) = 2
                /\ thrown[2].op = "close"
                /\ settled = Rejected(thrown[2].err)
                /\ logged = << thrown[1].err, thrown[2].err >>
    /\ (pc = Done /\ thrown = <<>>) => (settled = Fulfilled /\ logged = <<>>)

C2_Witness ==
    /\ pc = Done
    /\ thrown = << [op |-> "findFiction", err |-> "MalformedRequestError"] >>
    /\ settled = Fulfilled
    /\ logged = << "MalformedRequestError" >>

\* C3: at most one driver request is outstanding at any time, each request
\* is issued only after the previous one has settled, and the requests are
\* issued in program order: a run without failure issues exactly Program.
C3_Sequential ==
    /\ Cardinality(outstanding) <= 1
    /\ \A r \in outstanding : Len(calls) > 0 /\ calls[Len(calls)] = r
    /\ LET n == Len(calls)
           m == IF n > 0 /\ calls[n] = "close" THEN n - 1 ELSE n
       IN  /\ m < CloseAt
           /\ \A i \in 1..m : calls[i] = Program[i]
    /\ (pc = Done /\ ~TryFailed) => calls = Program

C3_Witness ==
    /\ pc = Done
    /\ thrown = <<>>
    /\ calls = Program
    /\ settled = Fulfilled

\* the requests issued are those up to the failed one, then at most close
OnlyCloseAfterFailure ==
    TryFailed =>
        LET k == IndexOf(thrown[1].op)
        IN  /\ Len(calls) <= k + 1
            /\ \A i \in 1..Len(calls) :
                   IF i <= k THEN calls[i] = Program[i] ELSE calls[i] = "close"

\* C10: once an awaited request of the try block has failed, no later request
\* of the try block is issued, the only driver call made afterwards is the
\* single client.close(), and what was written before the failure stays
\* written: the failing step leaves the database as it was or as the failed
\* write itself left it, and no step after it changes the database.
C10_FailFast ==
    [][ /\ OnlyCloseAfterFailure'
        /\ (TryFailed /\ TryFailed') => (books' = books /\ indexes' = indexes)
        /\ (~TryFailed /\ TryFailed') =>
               [books |-> books', indexes |-> indexes']
                   \in AfterFailure(thrown'[1].op, thrown'[1].err)
      ]_vars

\* deleteOne failed after updateOne had set the price of the first "1984":
\* the update is still there when run() has ended
C10_Witness ==
    /\ pc = Done
    /\ thrown = << [op |-> "deleteOne", err |-> "MalformedRequestError"] >>
    /\ calls = SubSeq(Program, 1, IndexOf("deleteOne")) \o << "close" >>
    /\ Len(books) >= 2
    /\ books[1].title = "1984" /\ books[1].price = NewPrice
    /\ Has(books[1], "genre")
    /\ books[2].title = "Moby Dick"

RECURSIVE SumCounts(_)
SumCounts(groups) ==
    IF Len(groups) = 0 THEN 0 ELSE Head(groups).count + SumCounts(Tail(groups))

\* the prices of the documents at the positions S of the collection, added up
RECURSIVE SumPrices(_)
SumPrices(S) ==
    IF S = {} THEN 0
    ELSE LET i == CHOOSE i \in S : TRUE
         IN  books[i].price + SumPrices(S \ {i})

Genres == {Field(books[i], "genre") : i \in 1..Len(books)}

\* C8: the pipeline [group by genre with the average price, sort by average
\* price descending] returns one document per distinct genre (documents
\* without a genre form the group null), each average being the mean price of
\* the genre's priced documents, in non-increasing order of average (null
\* last); and the groups of the counting pipelines have counts summing to the
\* number of documents of the collection.
C8_AvgByGenreOrdered ==
    /\ JustReturned("avgByGenre") =>
           /\ Len(table) = Cardinality(Genres)
           /\ \A g \in Genres : \E j \in 1..Len(table) : table[j]._id = g
           /\ \A j \in 1..Len(table) :
                  LET priced == {i \in 1..Len(books) :
                                    /\ Field(books[i], "genre") = table[j]._id
                                    /\ Has(books[i], "price")}
                      a == table[j].avgPrice
                  IN  IF priced = {} THEN IsNull(a)
                      ELSE /\ ~IsNull(a)
                           /\ a.den = Cardinality(priced)
                           /\ a.num = SumPrices(priced)
           /\ \A j \in 1..(Len(table) - 1) :
                  LET a == table[j].avgPrice
                      b == table[j + 1].avgPrice
                  IN  IsNull(b) \/ (~IsNull(a) /\ a.num * b.den >= b.num * a.den)
    /\ JustReturned("byDecade") =>
           /\ SumCounts(table) = Len(books)
           /\ \A j \in 1..(Len(table) - 1) :
                  /\ ~IsNull(table[j + 1]._id.decade)
                  /\ IsNull(table[j]._id.decade)
                       \/ table[j]._id.decade.v < table[j + 1]._id.decade.v
    /\ JustReturned("topAuthor") =>
           /\ \A tie \in TieOrders : SumCounts(authorCounts(books, tie)) = Len(books)
           /\ Len(table) = Min(TopN, Len(books))

\* four groups came back, the last with no priced document
C8_Witness ==
    /\ JustReturned("avgByGenre")
    /\ Len(table) = 4
    /\ IsNull(table[4].avgPrice)
    /\ table[1].avgPrice.num * table[2].avgPrice.den
           > table[2].avgPrice.num * table[1].avgPrice.den

NoDuplicateIndex == \A i, j \in 1..Len(indexes) : indexes[i] = indexes[j] => i = j

HasIndex(idx, key) == \E i \in 1..Len(idx) : idx[i] = key

\* C9: createIndex on a key that already has an index leaves the list of
\* indexes as it is (same count, no duplicate); after both createIndex calls
\* of the script have returned both indexes exist, and from then on no step
\* of the script, in this or a later run, changes the indexes.
C9_CreateIndexIdempotent ==
    [][ /\ NoDuplicateIndex'
        /\ JustReturned("createIndexAuthorYear")' =>
               (HasIndex(indexes', TitleIndex) /\ HasIndex(indexes', AuthorYearIndex))
        /\ (JustReturned("createIndexTitle")' /\ HasIndex(indexes, TitleIndex)) =>
               indexes' = indexes
        /\ (JustReturned("createIndexAuthorYear")' /\ HasIndex(indexes, AuthorYearIndex)) =>
               indexes' = indexes
        /\ (HasIndex(indexes, TitleIndex) /\ HasIndex(indexes, AuthorYearIndex)) =>
               indexes' = indexes
      ]_vars

\* the second run has called createIndex({title: 1}) again on a collection
\* that already had both indexes
C9_Witness ==
    /\ runs = 2
    /\ JustReturned("createIndexTitle")
    /\ indexes = << IdIndex, TitleIndex, AuthorYearIndex >>

----------------------------------------------------------------------------
(* The driver operations on their own: the calls run() makes, applied to   *)
(* the collection in any order and with filters, sorts and pages drawn     *)
(* from bounded sets that include the ones of the script.                  *)

FilterNames ==
    {"all", "fiction", "after1950", "orwell", "title1984", "mobyDick",
     "inStock", "isbn", "pricedFiction"}

FilterOf(name) ==
    CASE name = "all" -> <<>>
      [] name = "fiction" -> FictionFilter
      [] name = "after1950" -> After1950Filter
      [] name = "orwell" -> OrwellFilter
      [] name = "title1984" -> Title1984Filter
      [] name = "mobyDick" -> MobyDickFilter
      [] name = "inStock" -> InStockFilter
      [] name = "isbn" -> << Eq("isbn", "0451524934") >>
      [] name = "pricedFiction" -> << Gt("price", 10), Eq("genre", "Fiction") >>

\* the filters given to updateOne and deleteOne: the one of the script, and
\* one on a field no document has
UpdateFilterNames == {"title1984", "isbn"}
DeleteFilterNames == {"mobyDick", "isbn"}

\* 0: no sort; 1, -1: sort({price: 1}), sort({price: -1})
SortSpecs == {0, 1, -1}
Skips == (0..MaxSkip) \cup {PageSize}
Limits == (0..MaxLimit) \cup {PageSize}

\* every collection of at most MaxFacadeDocs documents of the pool
SmallCollections ==
    UNION {{[i \in 1..n |-> WithId(Pool[t[i]], i)] : t \in [1..n -> 1..Len(Pool)]} :
              n \in 0..MaxFacadeDocs}

FacadeCollections == SmallCollections \cup {Fixture(n, 0, 1) : n \in 0..MaxDocs}

\* the documents a cursor with filter F and sort srt yields before skip/limit
Sorted(coll, F, srt, tie) ==
    IF srt = 0 THEN find(coll, F)
    ELSE sort(find(coll, F), FieldKeys(find(coll, F), "price"), srt, tie)

\* a cursor that applies limit before skip
CursorLimitFirst(coll, F, srt, S, L, tie) ==
    skip(limit(Sorted(coll, F, srt, tie), L), S)

\* books.find(F).sort(srt).skip(S).limit(L).toArray(): the server sorts,
\* then skips, then limits, whatever the order of the cursor calls
Cursor(coll, F, srt, S, L, tie) ==
    limit(skip(Sorted(coll, F, srt, tie), S), L)

FacadeInit ==
    /\ books \in FacadeCollections
    /\ indexes = << IdIndex >>
    /\ client = "open"
    /\ pc = 1
    /\ outstanding = {}
    /\ calls = <<>>
    /\ table = <<>>
    /\ logged = <<>>
    /\ thrown = <<>>
    /\ settled = Pending
    /\ runs = 1
    /\ req = [op |-> "none"]
    /\ res = [op |-> "none"]

ScriptVars == <<client, pc, outstanding, calls, table, logged, thrown, settled, runs>>

NoRequest == [op |-> "none"]

\* the single caller awaits each call: no call is made while one is pending
FacadeIdle == req = NoRequest

FacadeFind ==
    /\ FacadeIdle
    /\ \E name \in FilterNames, srt \in SortSpecs, S \in Skips, L \in Limits,
          tie \in TieOrders :
           /\ req' = [op |-> "find", filter |-> name, sort |-> srt,
                      skip |-> S, limit |-> L]
           /\ res' = [docs |-> Cursor(books, FilterOf(name), srt, S, L, tie)]
           /\ UNCHANGED <<books, indexes, ScriptVars>>

FacadeUpdateOne ==
    /\ FacadeIdle
    /\ \E name \in UpdateFilterNames :
           LET r == updateOne(books, FilterOf(name), PriceChange) IN
           /\ req' = [op |-> "updateOne", filter |-> name, changes |-> PriceChange]
           /\ res' = [matchedCount |-> r.matchedCount,
                      modifiedCount |-> r.modifiedCount]
           /\ books' = r.coll
           /\ UNCHANGED <<indexes, ScriptVars>>

FacadeDeleteOne ==
    /\ FacadeIdle
    /\ \E name \in DeleteFilterNames :
           LET r == deleteOne(books, FilterOf(name)) IN
           /\ req' = [op |-> "deleteOne", filter |-> name]
           /\ res' = [deletedCount |-> r.deletedCount]
           /\ books' = r.coll
           /\ UNCHANGED <<indexes, ScriptVars>>

FacadeCreateIndex ==
    /\ FacadeIdle
    /\ \E key \in {TitleIndex, AuthorYearIndex} :
           /\ req' = [op |-> "createIndex", key |-> key]
           /\ res' = [count |-> Len(createIndex(indexes, key))]
           /\ indexes' = createIndex(indexes, key)
           /\ UNCHANGED <<books, ScriptVars>>

\* the caller has taken the result of its call
FacadeReturn ==
    /\ ~FacadeIdle
    /\ req' = NoRequest
    /\ res' = NoRequest
    /\ UNCHANGED <<books, indexes, ScriptVars>>

FacadeNext ==
    \/ FacadeReturn
    \/ FacadeFind
    \/ FacadeUpdateOne
    \/ FacadeDeleteOne
    \/ FacadeCreateIndex

FacadeSpec == FacadeInit /\ [][FacadeNext]_vars

----------------------------------------------------------------------------
(* Properties of the driver operations *)

\* clause c of a filter, read off the document
ClauseHolds(d, c) ==
    /\ c.field \in DOMAIN d
    /\ c.op = "eq" => d[c.field] = c.value
    /\ c.op = "gt" => d[c.field] > c.value

Satisfies(d, F) == \A k \in 1..Len(F) : ClauseHolds(d, F[k])

Returned(d) == \E j \in 1..Len(res.docs) : res.docs[j] = d

Unpaged == req.skip = 0 /\ req.limit = 0

\* C4: find(F) returns a document of the collection if and only if the
\* document satisfies every clause of F; the in_stock/published_year filter
\* returns exactly the documents in stock and published after 2010; a filter
\* on a field no document has returns the empty result.
C4_FindConjunction ==
    req.op = "find" =>
        LET F == FilterOf(req.filter) IN
        /\ \A j \in 1..Len(res.docs) :
               /\ \E i \in 1..Len(books) : books[i] = res.docs[j]
               /\ Satisfies(res.docs[j], F)
        /\ Unpaged =>
               \A i \in 1..Len(books) : Returned(books[i]) <=> Satisfies(books[i], F)
        /\ (Unpaged /\ req.filter = "inStock") =>
               \A i \in 1..Len(books) :
                   Returned(books[i]) <=>
                       /\ Has(books[i], "in_stock") /\ books[i].in_stock
                       /\ Has(books[i], "published_year")
                       /\ books[i].published_year > StockYear
        /\ req.filter = "isbn" => Len(res.docs) = 0

\* of two documents published after 2010 only the one in stock came back
C4_Witness ==
    /\ req.op = "find"
    /\ req.filter = "inStock"
    /\ Unpaged
    /\ Len(books) = 2
    /\ Has(books[1], "published_year") /\ books[1].published_year > StockYear
    /\ Has(books[2], "published_year") /\ books[2].published_year > StockYear
    /\ Len(res.docs) = 1
    /\ res.docs[1].in_stock

\* the S-th through (S+L-1)-th elements of the sequence full, counted from 0
Window(full, S, L) == SubSeq(full, S + 1, Min(S + L, Len(full)))

Titled1984 == {i \in 1..Len(books) : Has(books[i], "title") /\ books[i].title = "1984"}

\* C6: updateOne({title: "1984"}, {$set: {price: 15}}) keeps the number of
\* documents; with no match the collection is unchanged and matchedCount is
\* 0; otherwise the first matching document gets price 15 with its other
\* fields unchanged and every other document is unchanged; on a collection
\* holding one such document a following find({title: "1984"}) returns
\* exactly one document, with price 15.
C6_UpdateOneFrame ==
    [][ (req'.op = "updateOne" /\ req'.filter = "title1984") =>
          /\ Len(books') = Len(books)
          /\ IF Titled1984 = {}
             THEN /\ books' = books
                  /\ res'.matchedCount = 0
                  /\ res'.modifiedCount = 0
             ELSE \E i \in Titled1984 :
                      /\ \A j \in Titled1984 : i <= j
                      /\ res'.matchedCount = 1
                      /\ books'[i].price = NewPrice
                      /\ DOMAIN books'[i] = (DOMAIN books[i]) \cup {"price"}
                      /\ \A f \in (DOMAIN books[i]) \ {"price"} :
                             books'[i][f] = books[i][f]
                      /\ \A j \in (1..Len(books)) \ {i} : books'[j] = books[j]
          /\ Cardinality(Titled1984) = 1 =>
                 LET r == find(books', Title1984Filter)
                 IN  Len(r) = 1 /\ r[1].price = NewPrice
      ]_vars

\* the price of "1984" was changed to 15 next to an untouched second book
C6_Witness ==
    /\ req.op = "updateOne"
    /\ req.filter = "title1984"
    /\ res.matchedCount = 1
    /\ res.modifiedCount = 1
    /\ Len(books) = 2
    /\ books[1].title = "1984" /\ books[1].price = NewPrice
    /\ books[1].genre = "Fiction" /\ books[1].published_year = 1949
    /\ books[2].title = "The Alchemist" /\ books[2].price = 12

\* C7: deleteOne removes at most one document per call, the first that
\* matches; when no document matches it returns deletedCount 0, leaves the
\* collection unchanged, and a find with the same filter is still empty.
C7_DeleteOne ==
    [][ req'.op = "deleteOne" =>
          LET F == FilterOf(req'.filter)
              M == {i \in 1..Len(books) : Satisfies(books[i], F)}
          IN  /\ Len(books') >= Len(books) - 1
              /\ IF M = {}
                 THEN /\ books' = books
                      /\ res'.deletedCount = 0
                      /\ Len(find(books', F)) = 0
                 ELSE /\ res'.deletedCount = 1
                      /\ \E i \in M :
                             /\ \A j \in M : i <= j
                             /\ books' = SubSeq(books, 1, i - 1)
                                            \o SubSeq(books, i + 1, Len(books))
      ]_vars

\* deleteOne({title: "Moby Dick"}) on two documents, neither of that title
C7_Witness ==
    /\ req.op = "deleteOne"
    /\ req.filter = "mobyDick"
    /\ res.deletedCount = 0
    /\ Len(books) = 2

====
